---- MODULE Spec2Model ----
(***************************************************************************)
(* Model of the conversation loop of script/chat.py (run_chat_session):    *)
(* the new-generation branch (google-genai, lines 254-371) and the legacy  *)
(* branch (google-generativeai, lines 372-483), with the transcript logger *)
(* (ConversationLogger) and the speech output (call_speak_py).             *)
(*                                                                         *)
(* Strings the code inspects are modelled by what the code does to them:   *)
(*   - a prompt or an error message is a sequence of one-character         *)
(*     strings, so that str.lower() and the "in" substring test are         *)
(*     computed;                                                           *)
(*   - a response text is a sequence of JSON tokens, so that json.loads    *)
(*     and dict.get are computed.                                          *)
(***************************************************************************)
EXTENDS Integers, Sequences, FiniteSets, TLC

(***************************************************************************)
(* Bounds of the model.                                                    *)
(***************************************************************************)
\* number of prompts read by input() in one session
MaxTurns == 2
\* number of function-call responses the backend may return for one input
MaxToolRounds == 2

(***************************************************************************)
(* str.lower() and the substring test.                                     *)
(***************************************************************************)
UpperChars == <<"A","B","C","D","E","F","G","H","I","J","K","L","M",
                "N","O","P","Q","R","S","T","U","V","W","X","Y","Z">>
LowerChars == <<"a","b","c","d","e","f","g","h","i","j","k","l","m",
                "n","o","p","q","r","s","t","u","v","w","x","y","z">>

LowerChar(c) ==
    IF \E i \in 1..Len(UpperChars) : UpperChars[i] = c
    THEN LowerChars[CHOOSE i \in 1..Len(UpperChars) : UpperChars[i] = c]
    ELSE c

\* a lower() that forgets to fold the case
LowerIdentity(s) == s

\* prompt.lower()
Lower(s) == [i \in 1..Len(s) |-> LowerChar(s[i])]

\* sub in s
Contains(s, sub) ==
    \E i \in 1..(Len(s) - Len(sub) + 1) : SubSeq(s, i, i + Len(sub) - 1) = sub

ExitWords == { <<"e","x","i","t">>, <<"q","u","i","t">> }

\* prompt.lower() in ["exit", "quit"]
IsExit(p) == Lower(p) \in ExitWords

\* an emptiness test that lets every prompt through
NeverEmpty(p) == FALSE

\* not prompt
IsEmpty(p) == p = <<>>

Str429 == <<"4","2","9">>
StrResourceExhausted ==
    <<"R","E","S","O","U","R","C","E","_","E","X","H","A","U","S","T","E","D">>

\* "429" in error_str or "RESOURCE_EXHAUSTED" in error_str
IsRateLimit(e) == Contains(e, Str429) \/ Contains(e, StrResourceExhausted)

(***************************************************************************)
(* The retry parameters of the new-generation branch.                      *)
(***************************************************************************)
max_retries == 3
InitialDelay == 5

\* a backoff that does not grow
SameDelay(d) == d

\* retry_delay *= 2
NextDelay(d) == d * 2

\* attempt < max_retries - 1
MayRetry(a) == a < max_retries - 1

(***************************************************************************)
(* json.loads and dict.get on a response text.  A text is a sequence of    *)
(* tokens: punctuation, string literals ("s:..."), numbers ("n:...") and   *)
(* bare words ("w:..."), which are no JSON.                                *)
(***************************************************************************)
KeyDisplay == "s:display_text"
KeySpeech == "s:speech_text"
StrTokens == { KeyDisplay, KeySpeech, "s:a", "s:b" }
NumTokens == { "n:42" }
ScalarTokens == StrTokens \cup NumTokens

\* the Python value of a scalar token
ValueOf(tok) ==
    CASE tok = "s:a" -> <<"a">>
      [] tok = "s:b" -> <<"b">>
      [] tok = KeyDisplay -> <<"display_text">>
      [] tok = KeySpeech -> <<"speech_text">>
      [] OTHER -> <<tok>>

Inner(t) == SubSeq(t, 2, Len(t) - 1)

\* the text is one JSON scalar (a string, a number)
IsScalarText(t) == Len(t) = 1 /\ t[1] \in ScalarTokens

\* the text is a JSON array of scalars
IsArrayText(t) ==
    /\ Len(t) >= 2
    /\ t[1] = "LBRACKET"
    /\ t[Len(t)] = "RBRACKET"
    /\ LET in == Inner(t)
       IN  \/ in = <<>>
           \/ /\ Len(in) % 2 = 1
              /\ \A i \in 1..Len(in) :
                    IF i % 2 = 1 THEN in[i] \in ScalarTokens ELSE in[i] = "COMMA"

\* number of key : value pairs of an object text
PairCount(t) == (Len(Inner(t)) + 1) \div 4

\* the text is a JSON object of string keys and scalar values
IsObjectText(t) ==
    /\ Len(t) >= 2
    /\ t[1] = "LBRACE"
    /\ t[Len(t)] = "RBRACE"
    /\ LET in == Inner(t)
       IN  \/ in = <<>>
           \/ /\ (Len(in) + 1) % 4 = 0
              /\ \A j \in 0..(PairCount(t) - 1) :
                    /\ in[4 * j + 1] \in StrTokens
                    /\ in[4 * j + 2] = "COLON"
                    /\ in[4 * j + 3] \in ScalarTokens
                    /\ (j < PairCount(t) - 1 => in[4 * j + 4] = "COMMA")

\* json.loads(response.text): the type of the value, or "error" for JSONDecodeError
JsonKind(t) ==
    CASE IsObjectText(t) -> "object"
      [] IsArrayText(t) -> "array"
      [] IsScalarText(t) -> "scalar"
      [] OTHER -> "error"

\* a lookup that never finds the key
ObjGetDefault(t, key, default) == default

\* response_data.get(key, default) on the object json.loads returned
ObjGet(t, key, default) ==
    LET in == Inner(t)
        hits == { j \in 0..(PairCount(t) - 1) : in[4 * j + 1] = key }
    IN  IF hits = {} THEN default
        ELSE LET last == CHOOSE j \in hits : \A k \in hits : k <= j
             IN  ValueOf(in[4 * last + 3])

\* a truth test that takes every text for empty
HasTextNever(t) == FALSE

\* if response.text:
HasText(t) == t # <<>>

(***************************************************************************)
(* The inputs the environment may supply.                                  *)
(***************************************************************************)
\* lines typed at the prompt, or transcribed by the speech-to-text engine
Inputs ==
    { <<>>,
      <<"e","x","i","t">>,
      <<"E","X","I","T">>,
      <<"Q","u","i","t">>,
      <<"h","i">> }

Err429 == <<"e","r","r"," ","4","2","9">>
Err500 == <<"e","r","r"," ","5","0","0">>

\* messages of the exceptions generate_content may raise
Errors == { Err429, StrResourceExhausted, Err500 }

\* messages of the exceptions send_message_async may raise
LegacyErrors == { Err429, Err500 }

TextStructured ==
    <<"LBRACE", KeyDisplay, "COLON", "s:a", "COMMA", KeySpeech, "COLON", "s:b", "RBRACE">>
TextNoSpeech == <<"LBRACE", KeyDisplay, "COLON", "s:a", "RBRACE">>
TextArray == <<"LBRACKET", "s:a", "RBRACKET">>
TextPlain == <<"w:hello">>
TextNone == <<>>

\* response.text of the responses the backend may return
Texts == { TextStructured, TextNoSpeech, TextArray, TextPlain, TextNone }

\* replies of the tool session's call_tool
ToolReplies ==
    { [isError |-> FALSE,
       content |-> << [type |-> "text", text |-> <<"s">>],
                      [type |-> "image", text |-> <<"x">>],
                      [type |-> "text", text |-> <<"u">>] >>],
      [isError |-> TRUE,
       content |-> << [type |-> "text", text |-> <<"s">>] >>] }

\* messages of the exceptions call_tool may raise
ToolErrors == { <<"E","O","F">> }

(***************************************************************************)
(* State.                                                                  *)
(***************************************************************************)
VARIABLES
    sdk,           \* GENAI_NEW_SDK: "new" or "legacy"
    stt,           \* stt_engine is set (voice input enabled)
    mcp,           \* mcp_session is not None
    pc,            \* where the loop is waiting
    turns,         \* prompts read so far
    prompt,        \* the prompt of this iteration
    chat_history,  \* new branch: the contents sent with every request
    wire,          \* legacy branch: the messages exchanged through send_message_async:
                   \* the last one before this iteration, then those of this iteration
    log,           \* the lines the ConversationLogger wrote after its header
    attempt,       \* index of the for loop over range(max_retries)
    retry_delay,   \* the delay of the next sleep
    sleeps,        \* delays slept in this iteration
    response,      \* the last response of the backend
    tool_output,   \* the payload of the function response to send
    rounds,        \* function-call responses received in this iteration
    events,        \* backend and tool calls of this iteration, in order
    out,           \* print and call_speak_py calls of this iteration, in order
    outcome,       \* how this iteration went so far
    reported,      \* errors reported by the except Exception handler in this iteration
    endedBy        \* why the loop ended

config == <<sdk, stt, mcp>>
vars == <<sdk, stt, mcp, pc, turns, prompt, chat_history, wire, log, attempt,
          retry_delay, sleeps, response, tool_output, rounds, events, out,
          outcome, reported, endedBy>>

NoId == <<0, 0>>
NoResponse == [kind |-> "none", text |-> <<>>, id |-> NoId]
EndMarker == <<"Ended", <<>>>>

\* the session-end marker is in the log file
LogClosed == \E i \in 1..Len(log) : log[i] = EndMarker

Init ==
    /\ sdk \in {"new", "legacy"}
    /\ stt \in BOOLEAN
    /\ mcp \in BOOLEAN
    /\ pc = "input"
    /\ turns = 0
    /\ prompt = <<>>
    /\ chat_history = <<>>
    /\ wire = <<>>
    /\ log = <<>>
    /\ attempt = 0
    /\ retry_delay = InitialDelay
    /\ sleeps = <<>>
    /\ response = NoResponse
    /\ tool_output = <<>>
    /\ rounds = 0
    /\ events = <<>>
    /\ out = <<>>
    /\ outcome = "none"
    /\ reported = 0
    /\ endedBy = "none"

(***************************************************************************)
(* Pieces of the loop body shared by its handlers.                         *)
(***************************************************************************)
\* a call of the backend: what it returned, or "error" and whether the message of
\* the exception names a rate limit
BackendEvent(res, msg) ==
    [op |-> "backend", res |-> res,
     rl |-> (res = "error" /\ (Contains(msg, Str429) \/ Contains(msg, StrResourceExhausted))),
     id |-> NoId]
\* a call of call_tool for the request id: how it ended
ToolEvent(res, id) == [op |-> "tool", res |-> res, rl |-> FALSE, id |-> id]

\* an error handler that leaves the loop
ErrorStops == "done"

\* except Exception: ... continue
ErrorResume == "input"

\* the except Exception handler at the loop boundary
TurnError ==
    /\ pc' = ErrorResume
    /\ outcome' = "error"
    /\ reported' = reported + 1
    /\ endedBy' = IF ErrorResume = "done" THEN "error" ELSE endedBy

\* json.loads, the two get calls, print, call_speak_py and logger.log
Emit(text) ==
    LET kind == JsonKind(text)
        display_text == IF kind = "object" THEN ObjGet(text, KeyDisplay, text) ELSE text
        speech_text == IF kind = "object" THEN ObjGet(text, KeySpeech, text) ELSE text
    IN  IF kind \in {"object", "error"}
        THEN /\ out' = out \o << <<"print", display_text>>, <<"speak", speech_text>> >>
             /\ log' = Append(log, <<"Assistant", display_text>>)
             /\ pc' = "input"
             /\ outcome' = "answered"
             /\ UNCHANGED <<reported, endedBy>>
        ELSE \* the value has no get method: AttributeError
             /\ TurnError
             /\ UNCHANGED <<out, log>>

\* a model turn appended whether or not the response has text
FinishAlwaysAppends(text) ==
    /\ chat_history' = IF sdk = "new"
                       THEN Append(chat_history, [role |-> "model", text |-> text])
                       ELSE chat_history
    /\ IF HasText(text)
       THEN Emit(text)
       ELSE /\ pc' = "input"
            /\ outcome' = "silent"
            /\ UNCHANGED <<out, log, reported, endedBy>>

\* what follows the last response of the backend
Finish(text) ==
    IF HasText(text)
    THEN /\ chat_history' = IF sdk = "new"
                            THEN Append(chat_history, [role |-> "model", text |-> text])
                            ELSE chat_history
         /\ Emit(text)
    ELSE /\ pc' = "input"
         /\ outcome' = "silent"
         /\ UNCHANGED <<chat_history, out, log, reported, endedBy>>

\* a turn that starts its history afresh instead of appending to it
DispatchResetsHistory(p) ==
    IF IsExit(p)
    THEN /\ log' = Append(log, EndMarker)
         /\ pc' = "done"
         /\ endedBy' = "exit"
         /\ outcome' = "exit"
         /\ UNCHANGED <<chat_history, attempt, retry_delay>>
    ELSE IF IsEmpty(p)
    THEN /\ pc' = "input"
         /\ outcome' = "empty"
         /\ UNCHANGED <<log, endedBy, chat_history, attempt, retry_delay>>
    ELSE /\ log' = Append(log, <<"User", p>>)
         /\ outcome' = "turn"
         /\ UNCHANGED endedBy
         /\ IF sdk = "new"
            THEN /\ chat_history' = << [role |-> "user", text |-> p] >>
                 /\ attempt' = 0
                 /\ retry_delay' = InitialDelay
                 /\ pc' = "attempt"
            ELSE /\ pc' = "send"
                 /\ UNCHANGED <<chat_history, attempt, retry_delay>>

\* the exit test, the emptiness test and the start of the turn
Dispatch(p) ==
    IF IsExit(p)
    THEN /\ log' = Append(log, EndMarker)
         /\ pc' = "done"
         /\ endedBy' = "exit"
         /\ outcome' = "exit"
         /\ UNCHANGED <<chat_history, attempt, retry_delay>>
    ELSE IF IsEmpty(p)
    THEN /\ pc' = "input"
         /\ outcome' = "empty"
         /\ UNCHANGED <<log, endedBy, chat_history, attempt, retry_delay>>
    ELSE /\ log' = Append(log, <<"User", p>>)
         /\ outcome' = "turn"
         /\ UNCHANGED endedBy
         /\ IF sdk = "new"
            THEN /\ chat_history' = Append(chat_history, [role |-> "user", text |-> p])
                 /\ attempt' = 0
                 /\ retry_delay' = InitialDelay
                 /\ pc' = "attempt"
            ELSE /\ pc' = "send"
                 /\ UNCHANGED <<chat_history, attempt, retry_delay>>

(***************************************************************************)
(* Reading the prompt.                                                     *)
(***************************************************************************)
\* the last message of the exchange
LastOf(w) == IF w = <<>> THEN <<>> ELSE <<w[Len(w)]>>

\* input() returns s.  The records of the iteration start afresh; response and
\* tool_output, which the code assigns before it reads them, start unset.
ReadInput(s) ==
    /\ pc = "input"
    /\ turns < MaxTurns
    /\ turns' = turns + 1
    /\ prompt' = s
    /\ events' = <<>>
    /\ sleeps' = <<>>
    /\ out' = <<>>
    /\ reported' = 0
    /\ rounds' = 0
    /\ response' = NoResponse
    /\ tool_output' = <<>>
    /\ wire' = LastOf(wire)
    /\ IF IsEmpty(s) /\ stt
       THEN /\ pc' = "listen"
            /\ outcome' = "listening"
            /\ UNCHANGED <<log, endedBy, chat_history, attempt, retry_delay>>
       ELSE Dispatch(s)
    /\ UNCHANGED config

\* the speech-to-text engine returns t
ListenOk(t) ==
    /\ pc = "listen"
    /\ prompt' = t
    /\ Dispatch(t)
    /\ UNCHANGED <<config, turns, wire, sleeps, response, tool_output, rounds, events, out,
                   reported>>

\* a voice failure that leaves the loop instead of asking again
ListenFailEndsLoop ==
    /\ pc = "listen"
    /\ pc' = "done"
    /\ outcome' = "voice_failed"
    /\ endedBy' = "error"
    /\ UNCHANGED <<config, turns, prompt, chat_history, wire, log, attempt, retry_delay,
                   sleeps, response, tool_output, rounds, events, out, reported>>

\* capture or recognition raises
ListenFail ==
    /\ pc = "listen"
    /\ pc' = "input"
    /\ outcome' = "voice_failed"
    /\ UNCHANGED <<config, turns, prompt, chat_history, wire, log, attempt, retry_delay,
                   sleeps, response, tool_output, rounds, events, out, reported,
                   endedBy>>

(***************************************************************************)
(* The new-generation branch: generate_content under the retry loop.       *)
(***************************************************************************)
\* generate_content returns a response whose text is r
AttemptOk(r) ==
    /\ sdk = "new"
    /\ pc = "attempt"
    /\ events' = Append(events, BackendEvent("text", <<>>))
    /\ response' = [kind |-> "text", text |-> r, id |-> NoId]
    /\ Finish(r)
    /\ UNCHANGED <<config, turns, prompt, wire, attempt, retry_delay, sleeps, tool_output,
                   rounds>>

\* generate_content raises an exception whose message is e
AttemptFail(e) ==
    /\ sdk = "new"
    /\ pc = "attempt"
    /\ events' = Append(events, BackendEvent("error", e))
    /\ IF IsRateLimit(e) /\ MayRetry(attempt)
       THEN /\ pc' = "sleep"
            /\ UNCHANGED <<outcome, reported, endedBy>>
       ELSE TurnError
    /\ UNCHANGED <<config, turns, prompt, chat_history, wire, log, attempt, retry_delay,
                   sleeps, response, tool_output, rounds, out>>

\* asyncio.sleep(retry_delay) returns; the delay doubles and the for loop goes on
Sleep ==
    /\ sdk = "new"
    /\ pc = "sleep"
    /\ sleeps' = Append(sleeps, retry_delay)
    /\ retry_delay' = NextDelay(retry_delay)
    /\ attempt' = attempt + 1
    /\ IF attempt + 1 < max_retries
       THEN /\ pc' = "attempt"
            /\ UNCHANGED outcome
       ELSE \* the for loop ran out: response is None, continue
            /\ pc' = "input"
            /\ outcome' = "silent"
    /\ UNCHANGED <<config, turns, prompt, chat_history, wire, log, response, tool_output,
                   rounds, events, out, reported, endedBy>>

(***************************************************************************)
(* The legacy branch: send_message_async and the function-call loop.       *)
(***************************************************************************)
UserMsg(p) == [role |-> "user", key |-> "text", payload |-> p, id |-> NoId]
ModelMsg(r) == [role |-> "model", key |-> r.kind, payload |-> r.text, id |-> r.id]
ToolMsg(key, payload, id) == [role |-> "tool", key |-> key, payload |-> payload, id |-> id]

\* the responses send_message_async may return: a text, or a function call
Replies ==
    { [kind |-> "text", text |-> r, id |-> NoId] : r \in Texts }
    \cup (IF rounds < MaxToolRounds
          THEN { [kind |-> "fc", text |-> <<>>, id |-> <<turns, rounds + 1>>] }
          ELSE {})

\* every response send_message_async may return in some iteration
AllReplies ==
    { [kind |-> "text", text |-> r, id |-> NoId] : r \in Texts }
    \cup { [kind |-> "fc", text |-> <<>>, id |-> <<t, k>>] :
              t \in 1..MaxTurns, k \in 1..MaxToolRounds }

\* a loop test that never sees a function call
HasFunctionCallNever(r) == FALSE

\* response.parts and response.parts[0].function_call
HasFunctionCall(r) == r.kind = "fc"

RECURSIVE ConcatText(_)
\* tool_output += content.text for every content of type "text"
ConcatText(content) ==
    IF content = <<>> THEN <<>>
    ELSE (IF Head(content).type = "text" THEN Head(content).text ELSE <<>>)
         \o ConcatText(Tail(content))

ErrorExecutingTool ==
    <<"E","r","r","o","r"," ","e","x","e","c","u","t","i","n","g"," ","t","o","o","l",".">>

\* a payload that does not look at isError
ToolOutputIgnoresError(reply) == ConcatText(reply.content)

\* the tool_output computed from the reply of call_tool
ToolOutput(reply) ==
    IF ~reply.isError THEN ConcatText(reply.content) ELSE ErrorExecutingTool

\* the head of the while loop on a response r, and what follows the loop
AfterResponse(r) ==
    IF HasFunctionCall(r)
    THEN IF mcp
         THEN /\ pc' = "tool"
              /\ UNCHANGED <<chat_history, out, log, outcome, reported, endedBy>>
         ELSE \* break; response.text of a function-call response is empty or raises
              \/ /\ pc' = "input"
                 /\ outcome' = "silent"
                 /\ UNCHANGED <<chat_history, out, log, reported, endedBy>>
              \/ /\ TurnError
                 /\ UNCHANGED <<chat_history, out, log>>
    ELSE Finish(r.text)

\* a loop that keeps the function call it has just answered: response is not
\* reassigned by the follow-up send
ReceivedKeepsRequest(r) ==
    LET kept == IF HasFunctionCall(response) THEN response ELSE r
    IN  /\ response' = kept
        /\ events' = Append(events, BackendEvent(r.kind, <<>>))
        /\ rounds' = rounds
        /\ AfterResponse(kept)

\* what every returned response does to the state
Received(r) ==
    /\ response' = r
    /\ events' = Append(events, BackendEvent(r.kind, <<>>))
    /\ rounds' = IF r.kind = "fc" THEN rounds + 1 ELSE rounds
    /\ AfterResponse(r)

\* chat.send_message_async(prompt) returns r
SendOk(r) ==
    /\ sdk = "legacy"
    /\ pc = "send"
    /\ r \in Replies
    /\ wire' = wire \o <<UserMsg(prompt), ModelMsg(r)>>
    /\ Received(r)
    /\ UNCHANGED <<config, turns, prompt, attempt, retry_delay, sleeps, tool_output>>

\* chat.send_message_async(prompt) raises
SendFail(e) ==
    /\ sdk = "legacy"
    /\ pc = "send"
    /\ wire' = Append(wire, UserMsg(prompt))
    /\ events' = Append(events, BackendEvent("error", e))
    /\ TurnError
    /\ UNCHANGED <<config, turns, prompt, chat_history, log, attempt, retry_delay, sleeps,
                   response, tool_output, rounds, out>>

\* mcp_session.call_tool returns reply; tool_output is computed
CallToolOk(reply) ==
    /\ sdk = "legacy"
    /\ pc = "tool"
    /\ events' = Append(events,
                        ToolEvent(IF reply.isError THEN "isError" ELSE "ok", response.id))
    /\ tool_output' = ToolOutput(reply)
    /\ pc' = "followup"
    /\ UNCHANGED <<config, turns, prompt, chat_history, wire, log, attempt, retry_delay,
                   sleeps, response, rounds, out, outcome, reported, endedBy>>

\* mcp_session.call_tool raises: the except branch will send str(e)
CallToolFail(e) ==
    /\ sdk = "legacy"
    /\ pc = "tool"
    /\ events' = Append(events, ToolEvent("raise", response.id))
    /\ tool_output' = e
    /\ pc' = "followup_err"
    /\ UNCHANGED <<config, turns, prompt, chat_history, wire, log, attempt, retry_delay,
                   sleeps, response, rounds, out, outcome, reported, endedBy>>

\* send_message_async of the {'result': tool_output} function response returns r
FollowUpOk(r) ==
    /\ sdk = "legacy"
    /\ pc = "followup"
    /\ r \in Replies
    /\ wire' = wire \o <<ToolMsg("result", tool_output, response.id), ModelMsg(r)>>
    /\ Received(r)
    /\ UNCHANGED <<config, turns, prompt, attempt, retry_delay, sleeps, tool_output>>

\* the same send raises inside the try: the except branch will send str(e)
FollowUpFail(e) ==
    /\ sdk = "legacy"
    /\ pc = "followup"
    /\ wire' = Append(wire, ToolMsg("result", tool_output, response.id))
    /\ events' = Append(events, BackendEvent("error", e))
    /\ tool_output' = e
    /\ pc' = "followup_err"
    /\ UNCHANGED <<config, turns, prompt, chat_history, log, attempt, retry_delay, sleeps,
                   response, rounds, out, outcome, reported, endedBy>>

\* send_message_async of the {'error': str(e)} function response returns r
FollowUpErrOk(r) ==
    /\ sdk = "legacy"
    /\ pc = "followup_err"
    /\ r \in Replies
    /\ wire' = wire \o <<ToolMsg("error", tool_output, response.id), ModelMsg(r)>>
    /\ Received(r)
    /\ UNCHANGED <<config, turns, prompt, attempt, retry_delay, sleeps, tool_output>>

\* the send of the except branch raises: the error reaches the loop boundary
FollowUpErrFail(e) ==
    /\ sdk = "legacy"
    /\ pc = "followup_err"
    /\ wire' = Append(wire, ToolMsg("error", tool_output, response.id))
    /\ events' = Append(events, BackendEvent("error", e))
    /\ TurnError
    /\ UNCHANGED <<config, turns, prompt, chat_history, log, attempt, retry_delay, sleeps,
                   response, tool_output, rounds, out>>

(***************************************************************************)
(* An external interrupt.                                                  *)
(***************************************************************************)
\* the loop is left by an interrupt: the locals of the iteration and its records
\* are dropped with it
Dropped ==
    /\ prompt' = <<>>
    /\ attempt' = 0
    /\ retry_delay' = InitialDelay
    /\ sleeps' = <<>>
    /\ response' = NoResponse
    /\ tool_output' = <<>>
    /\ rounds' = 0
    /\ events' = <<>>
    /\ out' = <<>>
    /\ reported' = 0

\* KeyboardInterrupt is raised inside the try block: logger.close(), break
InterruptCaught ==
    /\ pc # "done"
    /\ log' = Append(log, EndMarker)
    /\ pc' = "done"
    /\ endedBy' = "interrupt"
    /\ outcome' = "interrupt"
    /\ Dropped
    /\ wire' = LastOf(wire)
    /\ UNCHANGED <<config, turns, chat_history>>

\* the interrupt ends asyncio.run outside the loop's try block: main() swallows it
InterruptEscapes ==
    /\ pc # "done"
    /\ pc' = "done"
    /\ endedBy' = "interrupt"
    /\ outcome' = "interrupt"
    /\ Dropped
    /\ wire' = LastOf(wire)
    /\ UNCHANGED <<config, turns, chat_history, log>>

Next ==
    \/ \E s \in Inputs : ReadInput(s)
    \/ \E t \in Inputs : ListenOk(t)
    \/ ListenFail
    \/ \E r \in Texts : AttemptOk(r)
    \/ \E e \in Errors : AttemptFail(e)
    \/ Sleep
    \/ \E r \in AllReplies : SendOk(r)
    \/ \E e \in LegacyErrors : SendFail(e)
    \/ \E reply \in ToolReplies : CallToolOk(reply)
    \/ \E e \in ToolErrors : CallToolFail(e)
    \/ \E r \in AllReplies : FollowUpOk(r)
    \/ \E e \in LegacyErrors : FollowUpFail(e)
    \/ \E r \in AllReplies : FollowUpErrOk(r)
    \/ \E e \in LegacyErrors : FollowUpErrFail(e)
    \/ InterruptCaught
    \/ InterruptEscapes

Spec == Init /\ [][Next]_vars

(***************************************************************************)
(* Vocabulary of the properties.                                           *)
(***************************************************************************)
\* c and d are the same letter, in the same or in different case
SameLetter(c, d) ==
    \/ c = d
    \/ \E i \in 1..Len(UpperChars) : {c, d} = {UpperChars[i], LowerChars[i]}

\* s equals "exit" or "quit" in some letter case
IsExitKeyword(s) ==
    \E w \in ExitWords : Len(s) = Len(w) /\ \A i \in 1..Len(w) : SameLetter(s[i], w[i])

\* the step hands the input s, typed or transcribed, to the exit and emptiness tests
Supplies(s) == (ReadInput(s) /\ ~(s = <<>> /\ stt)) \/ ListenOk(s)

\* the step adds no message for the backend, no turn and no log line
NothingSent ==
    /\ events' = <<>>
    /\ chat_history' = chat_history
    /\ wire' \in {wire, LastOf(wire)}

\* the backend calls among the events of the iteration
BackendCalls == SelectSeq(events, LAMBDA ev : ev.op = "backend")
ToolCalls == SelectSeq(events, LAMBDA ev : ev.op = "tool")

\* the iteration is over and the loop waits for the next prompt
TurnOver == pc = "input" /\ outcome \in {"answered", "silent", "error"}

(***************************************************************************)
(* C1: an input that equals "exit" or "quit" in any letter case, typed or  *)
(* transcribed, in either branch, ends the loop in that iteration: the     *)
(* session-end marker is written to the log, no backend call is made and   *)
(* no turn is appended or logged for it.                                   *)
(***************************************************************************)
C1_ExitEndsSession ==
    [][ \A s \in Inputs :
            (IsExitKeyword(s) /\ Supplies(s))
            => /\ pc' = "done"
               /\ log' = Append(log, EndMarker)
               /\ NothingSent ]_vars

\* the session was ended by an upper-case EXIT in the legacy branch, after a first turn
C1_Witness ==
    /\ pc = "done"
    /\ endedBy = "exit"
    /\ prompt = <<"E","X","I","T">>
    /\ sdk = "legacy"
    /\ turns = 2
    /\ log[Len(log)] = EndMarker

(***************************************************************************)
(* C2: an empty input, with voice input enabled or not, causes no backend  *)
(* call and appends no turn; the loop asks for the next input (by voice    *)
(* when the typed line is empty and voice input is enabled).               *)
(***************************************************************************)
C2_EmptyInputIsNoOp ==
    [][ (ReadInput(<<>>) \/ ListenOk(<<>>))
        => /\ NothingSent
           /\ log' = log
           /\ pc' = IF pc = "input" /\ stt THEN "listen" ELSE "input" ]_vars

\* an empty transcription was discarded and the loop is back at the prompt
C2_Witness ==
    /\ outcome = "empty"
    /\ stt
    /\ prompt = <<>>
    /\ pc = "input"
    /\ turns = 2
    /\ events = <<>>

(***************************************************************************)
(* C3: in the new-generation branch (max_retries = 3, first delay 5) one   *)
(* input gets at most 3 attempts; the delays slept before the second and   *)
(* the third attempt are exactly 5 and 10; a third rate-limit failure is   *)
(* raised to the loop boundary with no further delay and no further        *)
(* attempt in that iteration; the first attempt for the next input finds   *)
(* the delay at 5 again.                                                   *)
(***************************************************************************)
C3_BackoffFiveThenTen ==
    sdk = "new"
    => /\ Len(BackendCalls) <= 3
       /\ sleeps \in { <<>>, <<5>>, <<5, 10>> }
       /\ pc = "attempt"
          => /\ attempt = Len(BackendCalls)
             /\ Len(sleeps) = attempt
             /\ retry_delay = IF attempt = 0 THEN 5 ELSE IF attempt = 1 THEN 10 ELSE 20
       /\ pc = "sleep" => Len(sleeps) = Len(BackendCalls) - 1 /\ Len(BackendCalls) < 3
       /\ (Len(BackendCalls) = 3 /\ BackendCalls[3].rl)
          => /\ sleeps = <<5, 10>>
             /\ pc = "input"
             /\ outcome = "error"
             /\ reported = 1

\* the retries of the second input were exhausted after delays of 5 and 10
C3_Witness ==
    /\ sdk = "new"
    /\ turns = 2
    /\ Len(chat_history) >= 2
    /\ Len(BackendCalls) = 3
    /\ BackendCalls[3].rl
    /\ sleeps = <<5, 10>>
    /\ outcome = "error"

\* a call of the backend raises an exception whose message is e
BackendFails(e) ==
    AttemptFail(e) \/ SendFail(e) \/ FollowUpFail(e) \/ FollowUpErrFail(e)

(***************************************************************************)
(* C4: a failed backend call is retried if and only if its error message   *)
(* contains "429" or "RESOURCE_EXHAUSTED" (while attempts remain); any     *)
(* other error propagates to the loop boundary on its first occurrence,    *)
(* with no sleep and no second attempt.                                    *)
(***************************************************************************)
C4_RetriedIffRateLimit ==
    [][ \A e \in Errors :
            BackendFails(e)
            => IF (Contains(e, Str429) \/ Contains(e, StrResourceExhausted))
                  /\ attempt < max_retries - 1
               THEN pc' = "sleep" /\ reported' = reported
               ELSE pc' = "input" /\ reported' = reported + 1 /\ sleeps' = sleeps ]_vars

\* response texts that are a JSON object or no JSON at all
UsableTexts == { TextStructured, TextNoSpeech, TextPlain }

C6_EveryCallIsRetried ==
    (outcome = "error" /\ events # <<>>
        /\ events[Len(events)].op = "backend" /\ events[Len(events)].rl)
    => Len(sleeps) = max_retries - 1

(***************************************************************************)
(* C7: a failure raised while one input is processed is caught at the loop *)
(* boundary and reported, and the loop goes on to read the next input; the *)
(* loop ends only on the exit keyword or on an external interrupt.         *)
(***************************************************************************)
C7_FailedTurnDoesNotEndLoop ==
    [][ /\ reported' = reported + 1 => (pc' = "input" /\ turns' = turns)
        /\ (pc # "done" /\ pc' = "done")
           => \/ InterruptCaught
              \/ InterruptEscapes
              \/ \E s \in Inputs : IsExitKeyword(s) /\ Supplies(s) ]_vars

\* a follow-up call of the first turn failed, the error was reported and the loop is
\* back at the prompt with a turn to go
C7_Witness ==
    /\ sdk = "legacy"
    /\ turns = 1
    /\ turns < MaxTurns
    /\ pc = "input"
    /\ outcome = "error"
    /\ reported = 1
    /\ Len(BackendCalls) = 3
    /\ BackendCalls[3].res = "error"

\* non-empty response texts that are not of the {display_text, speech_text} shape
Unshaped == { TextNoSpeech, TextArray, TextPlain }

(***************************************************************************)
(* C8: a non-empty final response text that does not parse into the        *)
(* {display_text, speech_text} shape (no JSON, JSON that is no object, an  *)
(* object lacking a field) is never dropped: it yields exactly one display *)
(* output and one speech output, and what could not be read from it falls  *)
(* back to the raw text.                                                   *)
(***************************************************************************)
C8_FallbackToRawText ==
    (TurnOver /\ response.kind = "text" /\ response.text \in Unshaped)
    => /\ Len(out) = 2
       /\ out[1][1] = "print"
       /\ out[2][1] = "speak"
       /\ out[2][2] = response.text
       /\ response.text \in {TextArray, TextPlain} => out[1][2] = response.text

(***************************************************************************)
(* C9: when the first response to an input requests a tool and the         *)
(* response that follows the tool result is final text, the driver has     *)
(* issued exactly two backend calls and one tool call for that input, in   *)
(* the order backend call, tool call, backend call.                        *)
(***************************************************************************)
C9_BackendToolBackend ==
    (/\ mcp
     /\ TurnOver
     /\ events # <<>>
     /\ events[1].res = "fc"
     /\ \A i \in 2..Len(events) : events[i].res \notin {"fc", "error"})
    => /\ Len(events) = 3
       /\ events[1].op = "backend"
       /\ events[2].op = "tool"
       /\ events[2].id = <<turns, 1>>
       /\ events[3].op = "backend"
       /\ events[3].res = "text"

\* one tool round: function call, tool reply, final text, answered
C9_Witness ==
    /\ TurnOver
    /\ outcome = "answered"
    /\ Len(events) = 3
    /\ events[1].res = "fc"
    /\ events[2].op = "tool"
    /\ events[2].res = "ok"
    /\ events[3].res = "text"
    /\ Len(BackendCalls) = 2
    /\ Len(ToolCalls) = 1

(***************************************************************************)
(* C10: in the messages exchanged with the backend, every tool-result      *)
(* message comes immediately after a model response that carries the       *)
(* tool-call request it answers; it never comes after a user message,      *)
(* after another tool-result or after a response with no tool call.        *)
(***************************************************************************)
C10_ToolResultFollowsRequest ==
    \A i \in 2..Len(wire) :
        wire[i].role = "tool"
        => /\ wire[i - 1].role = "model"
           /\ wire[i - 1].key = "fc"
           /\ wire[i - 1].id = wire[i].id

(***************************************************************************)
(* C11: every tool-call request the backend emits is forwarded to          *)
(* call_tool at most once: whatever the replies and failures of the        *)
(* sub-loop, no two calls of call_tool carry the same request, and a call  *)
(* carries a request of the current input, never one of an earlier input.  *)
(***************************************************************************)
C11_RequestForwardedAtMostOnce ==
    /\ \A i, j \in 1..Len(ToolCalls) :
          i # j => ToolCalls[i].id # ToolCalls[j].id
    /\ \A i \in 1..Len(ToolCalls) : ToolCalls[i].id[1] = turns

\* the second input needed two tool calls: the first raised, the second returned
C11_Witness ==
    /\ turns = 2
    /\ TurnOver
    /\ Len(ToolCalls) = 2
    /\ ToolCalls[1].res = "raise"
    /\ ToolCalls[2].res = "ok"
    /\ ToolCalls[1].id = <<2, 1>>
    /\ ToolCalls[2].id = <<2, 2>>

\* the fragments of a reply that are of type "text"
TextFragments(reply) == SelectSeq(reply.content, LAMBDA c : c.type = "text")

RECURSIVE Joined(_)
\* the texts of the fragments fs, one after the other
Joined(fs) ==
    IF fs = <<>> THEN <<>>
    ELSE Joined(SubSeq(fs, 1, Len(fs) - 1)) \o fs[Len(fs)].text

\* the function response {'result': tool_output} is the message the step sends
SendsResult ==
    /\ Len(wire') > Len(wire)
    /\ wire'[Len(wire) + 1] = ToolMsg("result", tool_output, response.id)

(***************************************************************************)
(* C12: the tool result sent back to the backend is determined by the      *)
(* reply of call_tool: for a reply flagged isError the payload is exactly  *)
(* "Error executing tool." and holds none of the reply's content;          *)
(* otherwise it is the texts of the text-typed fragments, in order, with   *)
(* the other fragments left out.  That payload is what the follow-up       *)
(* message carries as its result.                                          *)
(***************************************************************************)
C12_PayloadFromReply ==
    [][ /\ \A reply \in ToolReplies :
              CallToolOk(reply)
              => IF reply.isError
                 THEN /\ tool_output' = ErrorExecutingTool
                      /\ Len(tool_output') = 21
                      /\ \A k \in 1..Len(reply.content) :
                            ~Contains(tool_output', reply.content[k].text)
                 ELSE tool_output' = Joined(TextFragments(reply))
        /\ \A r \in AllReplies : FollowUpOk(r) => SendsResult
        /\ \A e \in LegacyErrors : FollowUpFail(e) => SendsResult ]_vars

\* one input, two tool calls: the first reply had the fragments "s", an image and
\* "u", the second was flagged isError; both payloads were sent
C12_Witness ==
    /\ TurnOver
    /\ Len(ToolCalls) = 2
    /\ ToolCalls[1].res = "ok"
    /\ ToolCalls[2].res = "isError"
    /\ \E i, j \in 1..Len(wire) :
          /\ i < j
          /\ wire[i] = ToolMsg("result", <<"s", "u">>, <<turns, 1>>)
          /\ wire[j] = ToolMsg("result", ErrorExecutingTool, <<turns, 2>>)

(***************************************************************************)
(* C13: once a call of call_tool has failed at the transport level (it     *)
(* raised), the driver refuses further tool dispatch: call_tool is not     *)
(* invoked again, so a call that raised is the last call of call_tool.     *)
(***************************************************************************)
C13_NoDispatchAfterTransportFailure ==
    \A i \in 1..Len(ToolCalls) :
        ToolCalls[i].res = "raise" => i = Len(ToolCalls)

(***************************************************************************)
(* C14: the tool-call sub-loop of one input is cut short by the driver:    *)
(* against a backend that answers every follow-up with another tool-call   *)
(* request, as many as MaxToolRounds times in a row, the driver stops with *)
(* a fatal condition before it has dispatched all of them, so the number   *)
(* of tool calls of an input stays below the number of requests such a     *)
(* backend makes.                                                          *)
(***************************************************************************)
C14_SubLoopIsCapped == Len(ToolCalls) < MaxToolRounds

\* inputs that are neither empty nor an exit keyword
PlainInputs == { s \in Inputs : s # <<>> /\ ~IsExitKeyword(s) }

\* the display and the speech output of the response {display_text: a, speech_text: b}
StructuredOutput == << <<"print", <<"a">>>>, <<"speak", <<"b">>>> >>

(***************************************************************************)
(* C15: a non-empty, non-exit input whose first backend call is answered   *)
(* by a well-formed {display_text, speech_text} response with no tool call *)
(* adds exactly one user turn and then exactly one model turn to the       *)
(* conversation (chat_history in the new-generation branch, the messages   *)
(* of the chat in the legacy branch), makes exactly one backend call and   *)
(* exactly one speech-output call, whose argument is the speech_text of    *)
(* the response.                                                           *)
(***************************************************************************)
C15_OneExchangePerAnsweredInput ==
    [][ /\ \A s \in PlainInputs :
              (Supplies(s) /\ sdk = "new")
              => /\ chat_history' = Append(chat_history, [role |-> "user", text |-> s])
                 /\ events' = <<>>
                 /\ out' = <<>>
        /\ (AttemptOk(TextStructured) /\ events = <<>>)
           => /\ chat_history[Len(chat_history)] = [role |-> "user", text |-> prompt]
              /\ chat_history'
                    = Append(chat_history, [role |-> "model", text |-> TextStructured])
              /\ events' = << BackendEvent("text", <<>>) >>
              /\ out' = StructuredOutput
              /\ pc' = "input"
        /\ \A s \in PlainInputs :
              (Supplies(s) /\ sdk = "legacy")
              => /\ wire' \in {wire, LastOf(wire)}
                 /\ events' = <<>>
                 /\ out' = <<>>
        /\ SendOk([kind |-> "text", text |-> TextStructured, id |-> NoId])
           => /\ wire' = wire \o << UserMsg(prompt),
                                    [role |-> "model", key |-> "text",
                                     payload |-> TextStructured, id |-> NoId] >>
              /\ events' = << BackendEvent("text", <<>>) >>
              /\ out' = StructuredOutput
              /\ pc' = "input" ]_vars

\* the second input, "hi", was answered at the first call by the structured response
C15_Witness ==
    /\ sdk = "new"
    /\ turns = 2
    /\ TurnOver
    /\ outcome = "answered"
    /\ prompt = <<"h", "i">>
    /\ Len(BackendCalls) = 1
    /\ response.text = TextStructured
    /\ out = StructuredOutput
    /\ Len(chat_history) >= 2
    /\ chat_history[Len(chat_history) - 1] = [role |-> "user", text |-> <<"h", "i">>]
    /\ chat_history[Len(chat_history)] = [role |-> "model", text |-> TextStructured]

\* the (speaker, content) lines of the log, without the session-end marker
LoggedTurns == SelectSeq(log, LAMBDA l : l # EndMarker)

\* the speaker under which a turn of the history is logged
SpeakerOf(turn) == IF turn.role = "user" THEN "User" ELSE "Assistant"

(***************************************************************************)
(* C16: the logger receives one (speaker, content) line for every user     *)
(* turn and every model turn appended to the conversation history, in the  *)
(* order of the turns: between two inputs the lines of the log and the     *)
(* turns of chat_history match one to one, speaker by speaker, and a user  *)
(* line holds the text of its turn.                                        *)
(***************************************************************************)
C16_EveryTurnIsLogged ==
    sdk = "new"
    => /\ Len(LoggedTurns) = Len(chat_history)
       /\ \A i \in 1..Len(chat_history) :
             /\ LoggedTurns[i][1] = SpeakerOf(chat_history[i])
             /\ chat_history[i].role = "user"
                => LoggedTurns[i][2] = chat_history[i].text

(***************************************************************************)
(* C17: an external interrupt, wherever in the iteration it arrives, ends  *)
(* the loop with the session-end marker written to the log: once the loop  *)
(* has ended, by the exit keyword or by an interrupt, the last line of the *)
(* log is the end marker.                                                  *)
(***************************************************************************)
C17_EndedLogHasEndMarker ==
    pc = "done" => (log # <<>> /\ log[Len(log)] = EndMarker)

\* the sequence s is an initial part of the sequence t
IsPrefix(s, t) == Len(s) <= Len(t) /\ SubSeq(t, 1, Len(s)) = s

(***************************************************************************)
(* C18: the conversation history is append-only: no step removes,          *)
(* replaces or reorders a turn, so the history after a step has the        *)
(* history before it as a prefix, and the contents sent with a request     *)
(* extend the contents of every earlier request of the session.            *)
(***************************************************************************)
C18_HistoryIsAppendOnly ==
    [][ IsPrefix(chat_history, chat_history') ]_vars

\* the request of the second input is under way: its contents are the two turns
\* of the first exchange and the new user turn
C18_Witness ==
    /\ sdk = "new"
    /\ turns = 2
    /\ pc = "attempt"
    /\ Len(chat_history) = 3
    /\ chat_history[1].role = "user"
    /\ chat_history[2].role = "model"
    /\ chat_history[3] = [role |-> "user", text |-> prompt]

(***************************************************************************)
(* C19: when voice capture or speech-to-text fails after an empty typed    *)
(* line, the failure is reported and the loop asks for input again without *)
(* consuming a turn: the step appends no user turn, writes no log line and *)
(* sends nothing to the backend, and the loop is back at the prompt, where *)
(* it has still made no backend or tool call for that line.                *)
(***************************************************************************)
C19_VoiceFailureConsumesNoTurn ==
    [][ /\ ListenFail
           => /\ prompt = <<>>
              /\ pc' = "input"
              /\ outcome' = "voice_failed"
              /\ chat_history' = chat_history
              /\ log' = log
              /\ wire' = wire
              /\ events' = <<>>
              /\ out' = <<>>
              /\ endedBy' = "none"
        /\ (outcome = "voice_failed" /\ pc = "input" /\ pc' # "done")
           => \E s \in Inputs : ReadInput(s) ]_vars

\* the voice input of the second line failed after a first exchange; the loop is
\* at the prompt and the history and the log are those of the first exchange
C19_Witness ==
    /\ stt
    /\ sdk = "new"
    /\ turns = 2
    /\ pc = "input"
    /\ outcome = "voice_failed"
    /\ prompt = <<>>
    /\ events = <<>>
    /\ Len(chat_history) = 2
    /\ Len(log) = 2

(***************************************************************************)
(* C20: no user message is sent to the backend while a tool-call request   *)
(* of the backend is unanswered: in the messages exchanged with the        *)
(* backend a user message never comes directly after a model response that *)
(* carries a tool-call request, whichever way the sub-loop was left.       *)
(***************************************************************************)
C20_NoUserMessageOverOpenRequest ==
    \A i \in 2..Len(wire) :
        wire[i].role = "user"
        => ~(wire[i - 1].role = "model" /\ wire[i - 1].key = "fc")

(***************************************************************************)
(* C21: for each tool-call request at most one tool-result message is sent *)
(* to the backend: no two function responses among the messages exchanged  *)
(* with the backend answer the same request, also when the follow-up call  *)
(* that carries a successful result fails.                                 *)
(***************************************************************************)
C21_OneResultPerRequest ==
    \A i, j \in 1..Len(wire) :
        (wire[i].role = "tool" /\ wire[j].role = "tool" /\ wire[i].id = wire[j].id)
        => i = j

\* the turns of the history h that have the given role
TurnsOf(h, role) == SelectSeq(h, LAMBDA turn : turn.role = role)

\* user turns of h minus model turns of h
Unanswered(h) == Len(TurnsOf(h, "user")) - Len(TurnsOf(h, "model"))

\* the last turn of the history is the user turn of the current input
LastIsUserTurn ==
    /\ chat_history # <<>>
    /\ chat_history[Len(chat_history)] = [role |-> "user", text |-> prompt]

(***************************************************************************)
(* C22: in the new-generation branch, when the backend call for an input   *)
(* fails for good (an error that is not retried, or a rate limit on the    *)
(* last attempt) or returns an empty text, the user turn of that input     *)
(* stays the last turn of the history, with no model turn after it, and    *)
(* the next input is appended right behind it, so that the next request    *)
(* carries both.  Step by step the number of user turns minus the number   *)
(* of model turns goes up by one with every input sent, goes down by one   *)
(* with every response that has text, and is left alone by every failure   *)
(* and every empty response: between two inputs it is the number of inputs *)
(* that went unanswered.                                                   *)
(***************************************************************************)
C22_UnansweredUserTurnStays ==
    [][ sdk = "new"
        => /\ \A e \in Errors :
                 (AttemptFail(e) /\ pc' = "input")
                 => /\ LastIsUserTurn
                    /\ chat_history' = chat_history
                    /\ outcome' = "error"
           /\ AttemptOk(TextNone)
              => /\ LastIsUserTurn
                 /\ chat_history' = chat_history
                 /\ pc' = "input"
           /\ \A s \in PlainInputs :
                 (Supplies(s) /\ chat_history # <<>>
                     /\ chat_history[Len(chat_history)].role = "user")
                 => /\ chat_history' = Append(chat_history, [role |-> "user", text |-> s])
                    /\ pc' = "attempt"
           /\ Unanswered(chat_history') - Unanswered(chat_history)
                 = IF \E s \in PlainInputs : Supplies(s) THEN 1
                   ELSE IF \E r \in Texts \ {TextNone} : AttemptOk(r) THEN -1
                   ELSE 0 ]_vars

\* the first input failed, the second was answered: the history is user, user,
\* model, and one input is unanswered
C22_Witness ==
    /\ sdk = "new"
    /\ turns = 2
    /\ TurnOver
    /\ outcome = "answered"
    /\ Len(chat_history) = 3
    /\ chat_history[1].role = "user"
    /\ chat_history[2].role = "user"
    /\ chat_history[3].role = "model"
    /\ Unanswered(chat_history) = 1

====
